---- MODULE Spec2Model ----
(***************************************************************************)
(* A model of topic_folders/OOPS_LLD/Banking_system_LLD.py: the Account    *)
(* hierarchy (SavingsAccount, CurrentAccount), the class-level account      *)
(* counter and Customer.  Accounts are identified by their construction     *)
(* index; a Customer's list holds these indices, which models Python        *)
(* object references.                                                       *)
(*                                                                         *)
(*   Spec      accounts are constructed and called; every outcome is kept  *)
(*   CustSpec  accounts are constructed, called and handed to customers    *)
(*   DemoSpec  the two accounts of __main__ and the customers; every       *)
(*             outcome is kept                                             *)
(*   ConcSpec  callers run deposit / withdraw / the balance setter on the  *)
(*             two accounts one source statement per step                  *)
(***************************************************************************)
EXTENDS Integers, Sequences, FiniteSets, TLC

\* ---------------------------------------------------------------- bounds
MaxAccounts == 2
MaxAmount == 2
MaxBalance == 2
MaxHeld == 2

\* ---------------------------------------------------------- input domains
Owners == {"Alice"}
Customers == {"c1", "c2"}
\* amounts handed to deposit / withdraw / the balance setter
Amounts == -1 .. MaxAmount
\* balance argument of the constructors (not validated by the code)
InitBalances == -1 .. 1
\* interest_rate argument, in tenths of a percent (35 is the default 3.5)
InterestRates == {35}
\* overdraft_limit argument (not validated by the code)
OverdraftLimits == {-1, 1}
\* overdraft_limit argument where customers hold the accounts
CustOverdraftLimits == {1}

VARIABLES
    kind,             \* kind[a]: "Savings" or "Current", the class of account a
    owner,            \* owner[a]: self.owner
    _balance,         \* _balance[a]: self._balance
    interest_rate,    \* interest_rate[a]: self.interest_rate (0 where absent)
    overdraft_limit,  \* overdraft_limit[a]: self.overdraft_limit (0 where absent)
    _account_count,   \* Account._account_count
    accounts,         \* accounts[c]: Customer.accounts, a sequence of account ids
    lastOp,           \* outcome of the last call: error raised, value returned,
                      \* records handed to the logger / printed, balance before
    recording,        \* whether lastOp is kept (a history variable)
    \* --- callers running deposit / withdraw / the setter statement by statement
    pc,               \* pc[t]: the statement caller t executes next
    call,             \* call[t]: the call in progress (op, acct, amount)
    seen,             \* seen[t]: the balance t's last read of self._balance returned
    expected,         \* expected[a]: balance with every executed mutation applied
    atomic            \* TRUE: calls on one account never overlap

vars == <<kind, owner, _balance, interest_rate, overdraft_limit,
          _account_count, accounts, lastOp, recording, pc, call, seen, expected, atomic>>

acctVars == <<kind, owner, _balance, interest_rate, overdraft_limit>>

\* what no sequential call touches
ctlVars == <<recording, pc, call, seen, expected, atomic>>

Threads == {"t1", "t2"}

NoCall == [op |-> "none", acct |-> 0, amount |-> 0]

\* ------------------------------------------------------------------ errors
\* Every failure in the source is a ValueError; the raise sites differ by message.
NoError == [cls |-> "none", msg |-> ""]
InvalidAmountError == [cls |-> "ValueError", msg |-> "Amount must be positive"]
NegativeBalanceError == [cls |-> "ValueError", msg |-> "Balance cannot be negative"]
InsufficientFundsError == [cls |-> "ValueError", msg |-> "Insufficient funds in savings"]
OverdraftExceededError == [cls |-> "ValueError", msg |-> "Overdraft limit exceeded"]
TypeMismatchError == [cls |-> "TypeError", msg |-> "unsupported operand type(s) for +"]

\* ----------------------------------------------------------------- helpers
Ids == 1 .. Len(kind)

\* the outcome record of a call
Outcome(op, a, arg, err, ret, out, pre) ==
    IF recording
    THEN [op |-> op, acct |-> a, arg |-> arg, err |-> err, ret |-> ret,
          out |-> out, pre |-> pre]
    ELSE lastOp

NoOutcome ==
    [op |-> "init", acct |-> 0, arg |-> 0, err |-> NoError, ret |-> 0,
     out |-> <<>>, pre |-> 0]

\* Logger.info(msg): one record per call
info(text, amount, balance) ==
    [text |-> text, amount |-> amount, balance |-> balance]

\* mutant: zero passes the amount check
validate_amount_ZeroAllowed(amount) == amount < 0

\* Account.validate_amount: TRUE iff it raises
validate_amount(amount) == amount <= 0

\* mutant: the funds check is missing
InsufficientFunds_Never(a, amount) == FALSE

\* mutant: a withdrawal of the whole balance is refused
InsufficientFunds_Strict(a, amount) == amount >= _balance[a]

\* SavingsAccount.withdraw, line 146: TRUE iff the funds check raises
InsufficientFunds(a, amount) == amount > _balance[a]

\* mutant: a withdrawal down to the overdraft limit is refused
OverdraftExceeded_Strict(a, amount) == amount >= _balance[a] + overdraft_limit[a]

\* CurrentAccount.withdraw, line 170: TRUE iff the overdraft check raises
OverdraftExceeded(a, amount) == amount > _balance[a] + overdraft_limit[a]

\* the funds the check of withdraw compares the amount with
Available(a) ==
    IF kind[a] = "Savings" THEN _balance[a]
    ELSE _balance[a] + overdraft_limit[a]

\* Account.__str__
Str(a) == [owner |-> owner[a], balance |-> _balance[a]]

\* lowest balance a completed withdrawal may leave
Floor(a) == IF kind[a] = "Savings" THEN 0 ELSE -overdraft_limit[a]

\* -------------------------------------------------------------------- Init
Init ==
    /\ kind = <<>>
    /\ owner = <<>>
    /\ _balance = <<>>
    /\ interest_rate = <<>>
    /\ overdraft_limit = <<>>
    /\ _account_count = 0
    /\ accounts = [c \in Customers |-> <<>>]
    /\ recording = TRUE
    /\ lastOp = NoOutcome
    /\ pc = [t \in Threads |-> "idle"]
    /\ call = [t \in Threads |-> NoCall]
    /\ seen = [t \in Threads |-> 0]
    /\ expected = <<>>
    /\ atomic = TRUE

\* ------------------------------------------------------------ constructors
\* mutant: the count is kept on the instance, the class counter stays put
Account__init__InstanceCount(o, b) ==
    /\ owner' = Append(owner, o)
    /\ _balance' = Append(_balance, b)
    /\ _account_count' = _account_count

\* Account.__init__: stores owner and balance as given, bumps the class counter
Account__init__(o, b) ==
    /\ owner' = Append(owner, o)
    /\ _balance' = Append(_balance, b)
    /\ _account_count' = _account_count + 1

\* SavingsAccount(owner, balance, interest_rate)
SavingsAccount(o, b, r) ==
    /\ Len(kind) < MaxAccounts
    /\ Account__init__(o, b)
    /\ kind' = Append(kind, "Savings")
    /\ interest_rate' = Append(interest_rate, r)
    /\ overdraft_limit' = Append(overdraft_limit, 0)
    /\ lastOp' = Outcome("SavingsAccount", Len(kind) + 1, b, NoError, 0, <<>>, 0)
    /\ UNCHANGED <<accounts, ctlVars>>

\* CurrentAccount(owner, balance, overdraft_limit)
CurrentAccount(o, b, l) ==
    /\ Len(kind) < MaxAccounts
    /\ Account__init__(o, b)
    /\ kind' = Append(kind, "Current")
    /\ interest_rate' = Append(interest_rate, 0)
    /\ overdraft_limit' = Append(overdraft_limit, l)
    /\ lastOp' = Outcome("CurrentAccount", Len(kind) + 1, b, NoError, 0, <<>>, 0)
    /\ UNCHANGED <<accounts, ctlVars>>

\* ----------------------------------------------------------------- balance
\* the balance property: read
balance(a) == _balance[a]

\* mutant: the setter admits what the overdraft limit of the account admits
NegativeBalance_Overdraft(a, amount) == amount < Floor(a)

\* the balance setter, line 61: TRUE iff it raises
NegativeBalance(a, amount) == amount < 0

\* the balance setter: a.balance = amount
balance_setter(a, amount) ==
    /\ a \in Ids
    /\ IF NegativeBalance(a, amount)
       THEN /\ lastOp' = Outcome("set_balance", a, amount, NegativeBalanceError,
                                 0, <<>>, _balance[a])
            /\ UNCHANGED _balance
       ELSE /\ _balance' = [_balance EXCEPT ![a] = amount]
            /\ lastOp' = Outcome("set_balance", a, amount, NoError, 0, <<>>,
                                 _balance[a])
    /\ UNCHANGED <<kind, owner, interest_rate, overdraft_limit,
                   _account_count, accounts, ctlVars>>

\* Account.get_account_count
get_account_count ==
    /\ lastOp' = Outcome("get_account_count", 0, 0, NoError, _account_count,
                         <<>>, 0)
    /\ UNCHANGED <<acctVars, _account_count, accounts, ctlVars>>

\* ----------------------------------------------------------------- deposit
\* mutant: the record is written before the balance is updated
DepositRecord_Stale(a, amount) == info("Deposited", amount, _balance[a])

\* Account.deposit, lines 106-108: the record handed to the logger
DepositRecord(a, amount) == info("Deposited", amount, _balance[a] + amount)

\* Account.deposit(amount)
deposit(a, amount) ==
    /\ a \in Ids
    /\ IF validate_amount(amount)
       THEN /\ lastOp' = Outcome("deposit", a, amount, InvalidAmountError, 0,
                                 <<>>, _balance[a])
            /\ UNCHANGED _balance
       ELSE /\ _balance[a] + amount <= MaxBalance
            /\ _balance' = [_balance EXCEPT ![a] = @ + amount]
            /\ lastOp' = Outcome("deposit", a, amount, NoError, 0,
                                 <<DepositRecord(a, amount)>>,
                                 _balance[a])
    /\ UNCHANGED <<kind, owner, interest_rate, overdraft_limit,
                   _account_count, accounts, ctlVars>>

\* ---------------------------------------------------------------- withdraw
\* SavingsAccount.withdraw(amount)
SavingsWithdraw(a, amount) ==
    /\ a \in Ids
    /\ kind[a] = "Savings"
    /\ IF validate_amount(amount)
       THEN /\ lastOp' = Outcome("withdraw", a, amount, InvalidAmountError, 0,
                                 <<>>, _balance[a])
            /\ UNCHANGED _balance
       ELSE IF InsufficientFunds(a, amount)
       THEN /\ lastOp' = Outcome("withdraw", a, amount, InsufficientFundsError,
                                 0, <<>>, _balance[a])
            /\ UNCHANGED _balance
       ELSE /\ _balance' = [_balance EXCEPT ![a] = @ - amount]
            /\ lastOp' = Outcome("withdraw", a, amount, NoError, 0,
                                 <<info("Withdrew", amount, _balance[a] - amount)>>,
                                 _balance[a])
    /\ UNCHANGED <<kind, owner, interest_rate, overdraft_limit,
                   _account_count, accounts, ctlVars>>

\* CurrentAccount.withdraw(amount)
CurrentWithdraw(a, amount) ==
    /\ a \in Ids
    /\ kind[a] = "Current"
    /\ IF validate_amount(amount)
       THEN /\ lastOp' = Outcome("withdraw", a, amount, InvalidAmountError, 0,
                                 <<>>, _balance[a])
            /\ UNCHANGED _balance
       ELSE IF OverdraftExceeded(a, amount)
       THEN /\ lastOp' = Outcome("withdraw", a, amount, OverdraftExceededError,
                                 0, <<>>, _balance[a])
            /\ UNCHANGED _balance
       ELSE /\ _balance' = [_balance EXCEPT ![a] = @ - amount]
            /\ lastOp' = Outcome("withdraw", a, amount, NoError, 0,
                                 <<info("Withdrew", amount, _balance[a] - amount)>>,
                                 _balance[a])
    /\ UNCHANGED <<kind, owner, interest_rate, overdraft_limit,
                   _account_count, accounts, ctlVars>>

\* a.withdraw(amount), dispatched on the class of a
withdraw(a, amount) == SavingsWithdraw(a, amount) \/ CurrentWithdraw(a, amount)

\* ------------------------------------------------------------------ queries
\* InterestMixin.calculate_interest: balance * (interest_rate / 100), as a fraction
\* (interest_rate is kept in tenths of a percent)
calculate_interest(a) ==
    /\ a \in Ids
    /\ kind[a] = "Savings"
    /\ lastOp' = Outcome("calculate_interest", a, 0, NoError,
                         [num |-> balance(a) * interest_rate[a], den |-> 1000],
                         <<>>, _balance[a])
    /\ UNCHANGED <<acctVars, _account_count, accounts, ctlVars>>

\* Account.__add__(other); other = 0 stands for an operand that is no Account
Account__add__(a, other) ==
    /\ a \in Ids
    /\ other \in Ids \cup {0}
    /\ IF other = 0
       THEN lastOp' = Outcome("add", a, other, TypeMismatchError, 0, <<>>,
                              _balance[a])
       ELSE lastOp' = Outcome("add", a, other, NoError,
                              balance(a) + balance(other), <<>>, _balance[a])
    /\ UNCHANGED <<acctVars, _account_count, accounts, ctlVars>>

\* str(account)
describe(a) ==
    /\ a \in Ids
    /\ lastOp' = Outcome("str", a, 0, NoError, Str(a), <<>>, _balance[a])
    /\ UNCHANGED <<acctVars, _account_count, accounts, ctlVars>>

\* ----------------------------------------------------------------- Customer
\* number of entries held by all customers
Held == Len(accounts["c1"]) + Len(accounts["c2"])

\* mutant: the account is inserted at the front of the list
open_account_Prepend(c, a) ==
    /\ a \in Ids
    /\ Held < MaxHeld
    /\ accounts' = [accounts EXCEPT ![c] = <<a>> \o @]
    /\ lastOp' = Outcome("open_account", a, c, NoError, 0,
                         <<[text |-> "Account opened for", name |-> c,
                            account |-> Str(a)]>>, _balance[a])
    /\ UNCHANGED <<acctVars, _account_count, ctlVars>>

\* Customer.open_account(account)
open_account(c, a) ==
    /\ a \in Ids
    /\ Held < MaxHeld
    /\ accounts' = [accounts EXCEPT ![c] = Append(@, a)]
    /\ lastOp' = Outcome("open_account", a, c, NoError, 0,
                         <<[text |-> "Account opened for", name |-> c,
                            account |-> Str(a)]>>, _balance[a])
    /\ UNCHANGED <<acctVars, _account_count, ctlVars>>

\* sum(acc.balance for acc in accs)
RECURSIVE SumBalances(_)
SumBalances(accs) ==
    IF accs = <<>> THEN 0
    ELSE balance(Head(accs)) + SumBalances(Tail(accs))

RECURSIVE SumDistinct(_, _)
SumDistinct(accs, counted) ==
    IF accs = <<>> THEN 0
    ELSE IF Head(accs) \in counted THEN SumDistinct(Tail(accs), counted)
    ELSE balance(Head(accs)) + SumDistinct(Tail(accs), counted \cup {Head(accs)})

\* mutant: an account held more than once is counted once
total_balance_Distinct(c) == SumDistinct(accounts[c], {})

\* Customer.total_balance()
total_balance(c) == SumBalances(accounts[c])

\* a call of Customer.total_balance()
TotalBalanceCall(c) ==
    /\ lastOp' = Outcome("total_balance", 0, c, NoError, total_balance(c),
                         <<>>, 0)
    /\ UNCHANGED <<acctVars, _account_count, accounts, ctlVars>>

\* -------------------------------------------------------------------- Next
\* accounts alone, every outcome recorded
Next ==
    \/ \E o \in Owners, b \in InitBalances, r \in InterestRates :
           SavingsAccount(o, b, r)
    \/ \E o \in Owners, b \in InitBalances, l \in OverdraftLimits :
           CurrentAccount(o, b, l)
    \/ \E a \in Ids, x \in Amounts : deposit(a, x)
    \/ \E a \in Ids, x \in Amounts : withdraw(a, x)
    \/ \E a \in Ids, v \in Amounts : balance_setter(a, v)
    \/ \E a \in Ids : calculate_interest(a)
    \/ \E a \in Ids, other \in Ids \cup {0} : Account__add__(a, other)
    \/ \E a \in Ids : describe(a)
    \/ get_account_count

Spec == Init /\ [][Next]_vars

\* accounts constructed and handed to customers, lastOp not kept
CustInit ==
    /\ kind = <<>>
    /\ owner = <<>>
    /\ _balance = <<>>
    /\ interest_rate = <<>>
    /\ overdraft_limit = <<>>
    /\ _account_count = 0
    /\ accounts = [c \in Customers |-> <<>>]
    /\ recording = FALSE
    /\ lastOp = NoOutcome
    /\ pc = [t \in Threads |-> "idle"]
    /\ call = [t \in Threads |-> NoCall]
    /\ seen = [t \in Threads |-> 0]
    /\ expected = <<>>
    /\ atomic = TRUE

CustNext ==
    \/ \E o \in Owners, b \in InitBalances, r \in InterestRates :
           SavingsAccount(o, b, r)
    \/ \E o \in Owners, b \in InitBalances, l \in CustOverdraftLimits :
           CurrentAccount(o, b, l)
    \/ \E a \in Ids, x \in Amounts : deposit(a, x)
    \/ \E a \in Ids, x \in Amounts : withdraw(a, x)
    \/ \E a \in Ids, v \in Amounts : balance_setter(a, v)
    \/ \E a \in Ids : calculate_interest(a)
    \/ \E a \in Ids, other \in Ids \cup {0} : Account__add__(a, other)
    \/ \E a \in Ids : describe(a)
    \/ get_account_count
    \/ \E c \in Customers, a \in Ids : open_account(c, a)
    \/ \E c \in Customers : TotalBalanceCall(c)

CustSpec == CustInit /\ [][CustNext]_vars

\* ------------------------------------------------- the accounts of __main__
\* sav = SavingsAccount(...); cur = CurrentAccount(...): one account of each
\* class, built by the constructors
DemoAccounts ==
    /\ kind = <<"Savings", "Current">>
    /\ owner \in [1 .. 2 -> Owners]
    /\ _balance \in [1 .. 2 -> InitBalances]
    /\ interest_rate \in {<<r, 0>> : r \in InterestRates}
    /\ overdraft_limit \in {<<0, l>> : l \in OverdraftLimits}
    /\ _account_count = 2

\* the two accounts and the customers; every call recorded
DemoInit ==
    /\ DemoAccounts
    /\ accounts = [c \in Customers |-> <<>>]
    /\ recording = TRUE
    /\ lastOp = NoOutcome
    /\ pc = [t \in Threads |-> "idle"]
    /\ call = [t \in Threads |-> NoCall]
    /\ seen = [t \in Threads |-> 0]
    /\ expected = <<>>
    /\ atomic = TRUE

DemoNext ==
    \/ \E a \in Ids, x \in Amounts : deposit(a, x)
    \/ \E a \in Ids, x \in Amounts : withdraw(a, x)
    \/ \E a \in Ids, v \in Amounts : balance_setter(a, v)
    \/ \E a \in Ids : calculate_interest(a)
    \/ \E a \in Ids, other \in Ids \cup {0} : Account__add__(a, other)
    \/ \E a \in Ids : describe(a)
    \/ get_account_count
    \/ \E c \in Customers, a \in Ids : open_account(c, a)
    \/ \E c \in Customers : TotalBalanceCall(c)

DemoSpec == DemoInit /\ [][DemoNext]_vars

\* ------------------------------------------------------- concurrent callers
\* Callers in Threads run deposit, withdraw and the balance setter one source
\* statement per step, on two accounts built by the constructors.  expected is
\* the ledger of the atomic model: every call's effect applied, in full, at its
\* mutation statement.
ConcInit ==
    /\ DemoAccounts
    /\ accounts = [c \in Customers |-> <<>>]
    /\ recording = FALSE
    /\ lastOp = NoOutcome
    /\ pc = [t \in Threads |-> "idle"]
    /\ call = [t \in Threads |-> NoCall]
    /\ seen = [t \in Threads |-> 0]
    /\ expected = _balance
    /\ atomic \in BOOLEAN

\* what no statement of deposit / withdraw / the setter touches
fixedVars == <<kind, owner, interest_rate, overdraft_limit, _account_count,
               accounts, lastOp, recording, atomic>>

\* some other caller is inside a call on account a
Busy(t, a) == \E u \in Threads \ {t} : pc[u] # "idle" /\ call[u].acct = a

\* a caller may enter a call on a: always, or under per-account atomicity only
\* when no other call on a is in progress
MayEnter(t, a) == pc[t] = "idle" /\ (atomic => ~Busy(t, a))

Goto(t, label) == pc' = [pc EXCEPT ![t] = label]

Return(t) ==
    /\ pc' = [pc EXCEPT ![t] = "idle"]
    /\ call' = [call EXCEPT ![t] = NoCall]
    /\ seen' = [seen EXCEPT ![t] = 0]

\* deposit, line 104: Account.validate_amount(amount)
DepositValidate(t, a, amount) ==
    /\ MayEnter(t, a)
    /\ IF validate_amount(amount)
       THEN UNCHANGED <<pc, call>>
       ELSE /\ Goto(t, "deposit_add")
            /\ call' = [call EXCEPT ![t] =
                            [op |-> "deposit", acct |-> a, amount |-> amount]]
    /\ UNCHANGED <<_balance, expected, seen, fixedVars>>

\* deposit, line 105: self._balance += amount
DepositAdd(t) ==
    /\ pc[t] = "deposit_add"
    /\ _balance[call[t].acct] + call[t].amount <= MaxBalance
    /\ _balance' = [_balance EXCEPT ![call[t].acct] = @ + call[t].amount]
    /\ expected' = [expected EXCEPT ![call[t].acct] = @ + call[t].amount]
    /\ Goto(t, "deposit_log")
    /\ UNCHANGED <<call, seen, fixedVars>>

\* deposit, line 106: self.logger.info(...)
DepositLog(t) ==
    /\ pc[t] = "deposit_log"
    /\ Return(t)
    /\ UNCHANGED <<_balance, expected, fixedVars>>

\* withdraw, lines 145 / 169: Account.validate_amount(amount)
WithdrawValidate(t, a, amount) ==
    /\ MayEnter(t, a)
    /\ IF validate_amount(amount)
       THEN UNCHANGED <<pc, call>>
       ELSE /\ Goto(t, "withdraw_check")
            /\ call' = [call EXCEPT ![t] =
                            [op |-> "withdraw", acct |-> a, amount |-> amount]]
    /\ UNCHANGED <<_balance, expected, seen, fixedVars>>

\* withdraw, lines 146 / 170: the funds check
WithdrawCheck(t) ==
    /\ pc[t] = "withdraw_check"
    /\ IF \/ /\ kind[call[t].acct] = "Savings"
             /\ InsufficientFunds(call[t].acct, call[t].amount)
          \/ /\ kind[call[t].acct] = "Current"
             /\ OverdraftExceeded(call[t].acct, call[t].amount)
       THEN Return(t)
       ELSE /\ Goto(t, "withdraw_sub")
            /\ seen' = [seen EXCEPT ![t] = _balance[call[t].acct]]
            /\ UNCHANGED call
    /\ UNCHANGED <<_balance, expected, fixedVars>>

\* withdraw, lines 148 / 172: self._balance -= amount
WithdrawSub(t) ==
    /\ pc[t] = "withdraw_sub"
    /\ _balance' = [_balance EXCEPT ![call[t].acct] = @ - call[t].amount]
    /\ expected' = [expected EXCEPT ![call[t].acct] = @ - call[t].amount]
    /\ Goto(t, "withdraw_log")
    /\ UNCHANGED <<call, seen, fixedVars>>

\* withdraw, lines 149 / 173: self.logger.info(...)
WithdrawLog(t) ==
    /\ pc[t] = "withdraw_log"
    /\ Return(t)
    /\ UNCHANGED <<_balance, expected, fixedVars>>

\* the setter, line 61: if amount < 0: raise
SetterCheck(t, a, amount) ==
    /\ MayEnter(t, a)
    /\ IF NegativeBalance(a, amount)
       THEN UNCHANGED <<pc, call>>
       ELSE /\ Goto(t, "setter_assign")
            /\ call' = [call EXCEPT ![t] =
                            [op |-> "set_balance", acct |-> a, amount |-> amount]]
    /\ UNCHANGED <<_balance, expected, seen, fixedVars>>

\* the setter, line 63: self._balance = amount
SetterAssign(t) ==
    /\ pc[t] = "setter_assign"
    /\ _balance' = [_balance EXCEPT ![call[t].acct] = call[t].amount]
    /\ expected' = [expected EXCEPT ![call[t].acct] = call[t].amount]
    /\ Return(t)
    /\ UNCHANGED fixedVars

ConcNext ==
    \/ \E t \in Threads, a \in Ids, x \in Amounts : DepositValidate(t, a, x)
    \/ \E t \in Threads : DepositAdd(t)
    \/ \E t \in Threads : DepositLog(t)
    \/ \E t \in Threads, a \in Ids, x \in Amounts : WithdrawValidate(t, a, x)
    \/ \E t \in Threads : WithdrawCheck(t)
    \/ \E t \in Threads : WithdrawSub(t)
    \/ \E t \in Threads : WithdrawLog(t)
    \/ \E t \in Threads, a \in Ids, v \in Amounts : SetterCheck(t, a, v)
    \/ \E t \in Threads : SetterAssign(t)

ConcSpec == ConcInit /\ [][ConcNext]_vars

\* ====================================================================
\* Properties
\* ====================================================================

\* the last recorded call was op on account a
Did(op) == lastOp.op = op /\ lastOp.acct \in Ids

\* C1: deposit(a) and withdraw(a) with a <= 0 fail with InvalidAmountError on
\* either account variant and at any balance, leave the balance unchanged and
\* log nothing; the amount check comes first, so the failure is never
\* InsufficientFundsError or OverdraftExceededError.
C1_InvalidAmount ==
    ((Did("deposit") \/ Did("withdraw")) /\ lastOp.arg <= 0) =>
        /\ lastOp.err = InvalidAmountError
        /\ lastOp.err \notin {InsufficientFundsError, OverdraftExceededError}
        /\ _balance[lastOp.acct] = lastOp.pre
        /\ lastOp.out = <<>>

\* a withdrawal of a non-positive amount that the funds check would reject too
C1_Witness ==
    /\ Did("withdraw")
    /\ lastOp.arg <= 0
    /\ lastOp.arg > Available(lastOp.acct)
    /\ lastOp.err = InvalidAmountError

\* C2: SavingsAccount.withdraw(a) with a > 0 fails with InsufficientFundsError
\* (not the error of a bad amount) and keeps the balance when a > balance;
\* otherwise it succeeds and leaves balance - a, so a = balance leaves 0.
C2_SavingsWithdraw ==
    (Did("withdraw") /\ kind[lastOp.acct] = "Savings" /\ lastOp.arg > 0) =>
        IF lastOp.arg > lastOp.pre
        THEN /\ lastOp.err = InsufficientFundsError
             /\ lastOp.err # InvalidAmountError
             /\ _balance[lastOp.acct] = lastOp.pre
        ELSE /\ lastOp.err = NoError
             /\ _balance[lastOp.acct] = lastOp.pre - lastOp.arg
             /\ (lastOp.arg = lastOp.pre => _balance[lastOp.acct] = 0)

\* the whole balance of a savings account withdrawn
C2_Witness ==
    /\ Did("withdraw")
    /\ kind[lastOp.acct] = "Savings"
    /\ lastOp.arg > 0
    /\ lastOp.arg = lastOp.pre
    /\ lastOp.err = NoError
    /\ _balance[lastOp.acct] = 0

\* C3: CurrentAccount.withdraw(a) with a > 0 fails with OverdraftExceededError
\* and keeps the balance when a > balance + overdraft_limit; otherwise it
\* succeeds and leaves balance - a, never below -overdraft_limit, and exactly
\* -overdraft_limit when a = balance + overdraft_limit.
C3_CurrentWithdraw ==
    (Did("withdraw") /\ kind[lastOp.acct] = "Current" /\ lastOp.arg > 0) =>
        IF lastOp.arg > lastOp.pre + overdraft_limit[lastOp.acct]
        THEN /\ lastOp.err = OverdraftExceededError
             /\ _balance[lastOp.acct] = lastOp.pre
        ELSE /\ lastOp.err = NoError
             /\ _balance[lastOp.acct] = lastOp.pre - lastOp.arg
             /\ _balance[lastOp.acct] >= -overdraft_limit[lastOp.acct]
             /\ (lastOp.arg = lastOp.pre + overdraft_limit[lastOp.acct]
                    => _balance[lastOp.acct] = -overdraft_limit[lastOp.acct])

\* a current account drawn down to exactly its overdraft limit, below zero
C3_Witness ==
    /\ Did("withdraw")
    /\ kind[lastOp.acct] = "Current"
    /\ lastOp.arg > 0
    /\ lastOp.arg = lastOp.pre + overdraft_limit[lastOp.acct]
    /\ lastOp.err = NoError
    /\ _balance[lastOp.acct] = -overdraft_limit[lastOp.acct]
    /\ _balance[lastOp.acct] < 0

\* C4: deposit(a) with a > 0 succeeds on any account with balance' = balance + a
\* (a negative balance included) and hands the logger exactly one record, which
\* carries the amount and the resulting balance; a failed deposit logs nothing.
C4_Deposit ==
    Did("deposit") =>
        /\ lastOp.arg > 0 =>
              /\ lastOp.err = NoError
              /\ _balance[lastOp.acct] = lastOp.pre + lastOp.arg
              /\ Len(lastOp.out) = 1
              /\ lastOp.out[1] =
                    info("Deposited", lastOp.arg, lastOp.pre + lastOp.arg)
        /\ lastOp.err # NoError => lastOp.out = <<>>

\* a deposit into an overdrawn current account
C4_Witness ==
    /\ Did("deposit")
    /\ kind[lastOp.acct] = "Current"
    /\ lastOp.pre < 0
    /\ lastOp.arg > 0
    /\ lastOp.err = NoError
    /\ Len(lastOp.out) = 1

\* C5: in every reachable state a SavingsAccount's balance is >= 0 and a
\* CurrentAccount's balance is >= -overdraft_limit.
C5_BalanceLowerBound ==
    \A a \in Ids : _balance[a] >= Floor(a)

\* C8: assigning v < 0 to balance fails with NegativeBalanceError and keeps the
\* balance; assigning v >= 0 sets the balance to v.  Only v is looked at: a
\* current account rejects a negative value inside its overdraft allowance,
\* also when its balance is negative already.
C8_BalanceSetter ==
    Did("set_balance") =>
        IF lastOp.arg < 0
        THEN /\ lastOp.err = NegativeBalanceError
             /\ _balance[lastOp.acct] = lastOp.pre
        ELSE /\ lastOp.err = NoError
             /\ _balance[lastOp.acct] = lastOp.arg

\* an overdrawn current account refusing a negative value within its allowance
C8_Witness ==
    /\ Did("set_balance")
    /\ kind[lastOp.acct] = "Current"
    /\ lastOp.arg < 0
    /\ lastOp.arg >= -overdraft_limit[lastOp.acct]
    /\ lastOp.pre < 0
    /\ lastOp.err = NegativeBalanceError
    /\ _balance[lastOp.acct] = lastOp.pre

\* number of entries of the list accs that are account a
Count(accs, a) == Cardinality({i \in 1 .. Len(accs) : accs[i] = a})

\* the balances of the accounts 1 .. n, each weighted by its entries in accs
RECURSIVE Weighted(_, _)
Weighted(accs, n) ==
    IF n = 0 THEN 0
    ELSE Count(accs, n) * _balance[n] + Weighted(accs, n - 1)

\* C6: total_balance() returns the sum of the current balances of the entries
\* of the customer's list, one term per entry (an account held twice, or by two
\* customers, counts per entry), 0 for an empty list; an open_account adds the
\* opened account's balance at once, and a change of a held account's balance
\* shows in the total once per entry.
C6_TotalBalance ==
    /\ [](lastOp.op = "total_balance" =>
            /\ lastOp.err = NoError
            /\ lastOp.ret = Weighted(accounts[lastOp.arg], Len(kind))
            /\ (accounts[lastOp.arg] = <<>> => lastOp.ret = 0))
    /\ [][\A c \in Customers :
            /\ \A a \in Ids :
                  accounts'[c] = Append(accounts[c], a) =>
                      total_balance(c)' = total_balance(c) + _balance[a]
            /\ \A a \in Ids :
                  (accounts' = accounts /\ _balance'[a] # _balance[a]) =>
                      total_balance(c)' = total_balance(c)
                          + Count(accounts[c], a) * (_balance'[a] - _balance[a])
         ]_vars

\* total_balance() of a customer who opened one account twice, its balance no
\* longer one that a freshly built account can have
C6_Witness ==
    \E a \in Ids :
        /\ lastOp.op = "total_balance"
        /\ lastOp.arg = "c1"
        /\ Count(accounts["c1"], a) = 2
        /\ _balance[a] = MaxBalance
        /\ lastOp.ret = 2 * MaxBalance

\* C7: the account counter starts at 0, goes up by exactly 1 with every account
\* constructed, whatever its class, never goes down and is left alone by every
\* other call, failed ones included: it always is the number of accounts
\* constructed so far.
C7_AccountCount ==
    /\ [](_account_count = Len(kind))
    /\ [][/\ _account_count' >= _account_count
          /\ Len(kind') = Len(kind) + 1 => _account_count' = _account_count + 1
          /\ Len(kind') = Len(kind) => _account_count' = _account_count
         ]_vars

\* a savings and a current account counted by the one counter, one of them held
C7_Witness ==
    /\ _account_count = 2
    /\ Len(kind) = 2
    /\ kind[1] # kind[2]
    /\ Held > 0

\* the calls that only return a value
Queries ==
    {"calculate_interest", "add", "str", "get_account_count", "total_balance"}

\* C9: deposit, withdraw and balance assignment on an account change nothing
\* but that account's balance: owner, class, interest_rate and overdraft_limit
\* of every account keep their construction values, and the other balances,
\* the account counter and the customers' lists stay.  calculate_interest, +,
\* str, get_account_count and total_balance change nothing.  open_account
\* appends the account at the end of the target customer's list and changes
\* nothing else.
C9_Frame ==
    [][/\ Len(kind') = Len(kind)
       /\ \A a \in Ids :
             /\ kind'[a] = kind[a]
             /\ owner'[a] = owner[a]
             /\ interest_rate'[a] = interest_rate[a]
             /\ overdraft_limit'[a] = overdraft_limit[a]
       /\ lastOp'.op \in Queries \cup {"deposit", "withdraw", "set_balance",
                                        "open_account"}
       /\ lastOp'.op \in Queries =>
             UNCHANGED <<acctVars, _account_count, accounts>>
       /\ lastOp'.op \in {"deposit", "withdraw", "set_balance"} =>
             /\ \A b \in Ids \ {lastOp'.acct} : _balance'[b] = _balance[b]
             /\ Len(_balance') = Len(_balance)
             /\ _account_count' = _account_count
             /\ accounts' = accounts
       /\ lastOp'.op = "open_account" =>
             /\ accounts'[lastOp'.arg] =
                    Append(accounts[lastOp'.arg], lastOp'.acct)
             /\ \A d \in Customers \ {lastOp'.arg} : accounts'[d] = accounts[d]
             /\ UNCHANGED <<acctVars, _account_count>>
      ]_vars

\* a withdrawal from an account that a customer holds next to a second one,
\* opened in the opposite order of their construction
C9_Witness ==
    /\ Did("withdraw")
    /\ lastOp.err = NoError
    /\ accounts["c1"] = <<2, 1>>
    /\ _balance[1] # _balance[2]

====
